---- MODULE Spec2Model ----
(***************************************************************************)
(* Mortgage rule generator (src/app.py): the column validator/normaliser   *)
(* and the chat-driven conversation state machine.                         *)
(*                                                                         *)
(* Representation.  A Python str is a sequence of one-character strings.   *)
(* A Python dict is a function whose domain is its set of keys.  JSON      *)
(* values that are not strings are one-element sequences holding a         *)
(* multi-character marker, which no str can equal.                         *)
(***************************************************************************)
EXTENDS Integers, Sequences, FiniteSets, TLC

----------------------------------------------------------------------------
(* Python values *)

\* Python's None as the value of a variable holding a dict or None.
None == [py |-> "None"]

\* What a function call yields when an exception leaves it.
Exception == [py |-> "Exception"]

\* The empty dict {}.
EmptyDict == [k \in {} |-> k]

\* Python's None where a str is expected (JSON null as a condition's "field",
\* modification_request = None).
NoneStr == <<"None">>

\* A JSON number as the value of a condition's "field".

JsonNumber == <<"7">>

\* correct_column_name leaving by AttributeError (field_name.lower() on a number).
AttributeError == <<"AttributeError">>

\* Truthy as `is not None`.
TruthyIsNotNone(v) == v # None

\* Truthiness of a dict-or-None (`if new_rule:`, `if not rule`).
Truthy(v) == v # None /\ v # EmptyDict

\* Truthiness of a str-or-None-or-number (`if not field_name`,
\* `if modification_request:`).
TruthyStr(f) == f # <<>> /\ f # NoneStr

\* d.get(k, default)
Get(d, k, default) == IF k \in DOMAIN d THEN d[k] ELSE default

----------------------------------------------------------------------------
(* str operations *)

UpperChars ==
    << "A","B","C","D","E","F","G","H","I","J","K","L","M",
       "N","O","P","Q","R","S","T","U","V","W","X","Y","Z" >>

LowerChars ==
    << "a","b","c","d","e","f","g","h","i","j","k","l","m",
       "n","o","p","q","r","s","t","u","v","w","x","y","z" >>

LowerChar(c) ==
    IF \E i \in DOMAIN UpperChars : UpperChars[i] = c
    THEN LowerChars[CHOOSE i \in DOMAIN UpperChars : UpperChars[i] = c]
    ELSE c

\* s.lower()
Lower(s) == [i \in 1..Len(s) |-> LowerChar(s[i])]

\* `sub in s`
Contains(s, sub) ==
    \E i \in 0..(Len(s) - Len(sub)) : SubSeq(s, i + 1, i + Len(sub)) = sub

----------------------------------------------------------------------------
(* Schema registry *)

\* Iteration order of CSV_STRUCTURES (insertion order of the dict literal).
SourceOrder ==
    << "sample_mortgage_accounts.csv",
       "sample_loan_repayments.csv",
       "sample_telco_billing.csv",
       "sample_product_enrollments.csv",
       "sample_customer_profiles.csv",
       "sample_savings_account_transactions.csv",
       "sample_credit_card_transactions.csv" >>

CSV_STRUCTURES ==
    ("sample_mortgage_accounts.csv" :>
        << <<"c","u","s","t","o","m","e","r","_","i","d">>,
           <<"a","c","c","o","u","n","t","_","s","t","a","t","u","s">>,
           <<"l","o","a","n","_","a","m","o","u","n","t">>,
           <<"i","n","t","e","r","e","s","t","_","r","a","t","e">>,
           <<"s","t","a","r","t","_","d","a","t","e">>,
           <<"t","e","r","m">> >>)
    @@ ("sample_loan_repayments.csv" :>
        << <<"t","r","a","n","s","a","c","t","i","o","n","_","i","d">>,
           <<"c","u","s","t","o","m","e","r","_","i","d">>,
           <<"p","a","y","m","e","n","t","_","a","m","o","u","n","t">>,
           <<"p","a","y","m","e","n","t","_","d","a","t","e">>,
           <<"l","o","a","n","_","i","d">>,
           <<"s","t","a","t","u","s">> >>)
    @@ ("sample_telco_billing.csv" :>
        << <<"b","i","l","l","_","i","d">>,
           <<"c","u","s","t","o","m","e","r","_","i","d">>,
           <<"a","m","o","u","n","t">>,
           <<"d","u","e","_","d","a","t","e">>,
           <<"p","a","i","d","_","d","a","t","e">>,
           <<"s","e","r","v","i","c","e","_","t","y","p","e">> >>)
    @@ ("sample_product_enrollments.csv" :>
        << <<"e","n","r","o","l","l","m","e","n","t","_","i","d">>,
           <<"c","u","s","t","o","m","e","r","_","i","d">>,
           <<"p","r","o","d","u","c","t","_","i","d">>,
           <<"e","n","r","o","l","l","m","e","n","t","_","d","a","t","e">>,
           <<"s","t","a","t","u","s">> >>)
    @@ ("sample_customer_profiles.csv" :>
        << <<"c","u","s","t","o","m","e","r","_","i","d">>,
           <<"n","a","m","e">>,
           <<"a","g","e">>,
           <<"i","n","c","o","m","e">>,
           <<"c","r","e","d","i","t","_","s","c","o","r","e">>,
           <<"a","d","d","r","e","s","s">> >>)
    @@ ("sample_savings_account_transactions.csv" :>
        << <<"t","r","a","n","s","a","c","t","i","o","n","_","i","d">>,
           <<"a","c","c","o","u","n","t","_","i","d">>,
           <<"c","u","s","t","o","m","e","r","_","i","d">>,
           <<"a","m","o","u","n","t">>,
           <<"d","a","t","e">>,
           <<"t","r","a","n","s","a","c","t","i","o","n","_","t","y","p","e">> >>)
    @@ ("sample_credit_card_transactions.csv" :>
        << <<"t","r","a","n","s","a","c","t","i","o","n","_","i","d">>,
           <<"c","a","r","d","_","i","d">>,
           <<"c","u","s","t","o","m","e","r","_","i","d">>,
           <<"a","m","o","u","n","t">>,
           <<"d","a","t","e">>,
           <<"m","e","r","c","h","a","n","t">>,
           <<"c","a","t","e","g","o","r","y">> >>)

\* Every column in the order the module-level loop visits them.
RECURSIVE ColumnsFrom(_)
ColumnsFrom(i) ==
    IF i > Len(SourceOrder) THEN <<>>
    ELSE CSV_STRUCTURES[SourceOrder[i]] \o ColumnsFrom(i + 1)

AllColumns == ColumnsFrom(1)

\* The dict the module-level loop builds from the columns it visits:
\* mapping[col.lower()] = col, a later column overwriting an earlier one.
MappingOf(columns) ==
    [ k \in { Lower(columns[i]) : i \in DOMAIN columns } |->
        columns[CHOOSE i \in DOMAIN columns :
                    /\ Lower(columns[i]) = k
                    /\ \A j \in DOMAIN columns : Lower(columns[j]) = k => j <= i] ]

COLUMN_MAPPING == MappingOf(AllColumns)

\* d.values()
Values(d) == { d[k] : k \in DOMAIN d }

----------------------------------------------------------------------------
(* Column correction *)

\* The `variations` dict of correct_column_name, in insertion order:
\* << partial, full >>.
variations ==
    << << <<"i","d">>, <<"c","u","s","t","o","m","e","r","_","i","d">> >>,
       << <<"p","a","y","m","e","n","t">>, <<"p","a","y","m","e","n","t","_","a","m","o","u","n","t">> >>,
       << <<"d","a","t","e">>, <<"p","a","y","m","e","n","t","_","d","a","t","e">> >>,
       << <<"s","t","a","t","u","s">>, <<"a","c","c","o","u","n","t","_","s","t","a","t","u","s">> >>,
       << <<"a","m","o","u","n","t">>, <<"p","a","y","m","e","n","t","_","a","m","o","u","n","t">> >>,
       << <<"s","c","o","r","e">>, <<"c","r","e","d","i","t","_","s","c","o","r","e">> >>,
       << <<"t","y","p","e">>, <<"t","r","a","n","s","a","c","t","i","o","n","_","t","y","p","e">> >>,
       << <<"t","r","a","n","s","a","c","t","i","o","n">>, <<"a","m","o","u","n","t">> >>,
       << <<"s","p","e","n","d">>, <<"a","m","o","u","n","t">> >>,
       << <<"m","i","n","u","t","e","s">>, <<"s","e","r","v","i","c","e","_","t","y","p","e">> >> >>

\* FirstVariation returning the last variation that matches, not the first.
LastVariation(table, i, lower_name) ==
    IF \E k \in i..Len(table) : Contains(lower_name, table[k][1])
    THEN << table[CHOOSE k \in i..Len(table) :
                      /\ Contains(lower_name, table[k][1])
                      /\ \A m \in (k + 1)..Len(table) :
                             ~Contains(lower_name, table[m][1])][2] >>
    ELSE <<>>

\* for partial, full in variations.items(): if partial in lower_name: return full
RECURSIVE FirstVariation(_, _, _)
FirstVariation(table, i, lower_name) ==
    IF i > Len(table) THEN <<>>
    ELSE IF Contains(lower_name, table[i][1]) THEN << table[i][2] >>
    ELSE FirstVariation(table, i + 1, lower_name)

\* CorrectLowered without the case-insensitive match.
CorrectLoweredVariationsOnly(field_name, lower_name, mapping) ==
    IF FirstVariation(variations, 1, lower_name) # <<>>
    THEN FirstVariation(variations, 1, lower_name)[1]
    ELSE field_name

\* correct_column_name, lines 141-164, with lower_name = field_name.lower().
CorrectLowered(field_name, lower_name, mapping) ==
    IF lower_name \in DOMAIN mapping THEN mapping[lower_name]
    ELSE IF FirstVariation(variations, 1, lower_name) # <<>>
    THEN FirstVariation(variations, 1, lower_name)[1]
    ELSE field_name

\* CorrectWith with the variations tried before the exact and the
\* case-insensitive match.
CorrectWithVariationsFirst(field_name, mapping) ==
    IF ~TruthyStr(field_name) THEN field_name
    ELSE IF field_name = JsonNumber THEN AttributeError
    ELSE IF FirstVariation(variations, 1, Lower(field_name)) # <<>>
    THEN FirstVariation(variations, 1, Lower(field_name))[1]
    ELSE IF Lower(field_name) \in DOMAIN mapping THEN mapping[Lower(field_name)]
    ELSE field_name

\* correct_column_name, with mapping = COLUMN_MAPPING.
CorrectWith(field_name, mapping) ==
    IF ~TruthyStr(field_name) THEN field_name
    ELSE IF field_name \in Values(mapping) THEN field_name
    ELSE IF field_name = JsonNumber THEN AttributeError
    ELSE CorrectLowered(field_name, Lower(field_name), mapping)

correct_column_name(field_name) == CorrectWith(field_name, COLUMN_MAPPING)

----------------------------------------------------------------------------
(* Validator *)

\* rule_item.get("ruleType") == "conditionGroup"
IsConditionGroup(rule_item) ==
    "ruleType" \in DOMAIN rule_item /\ rule_item["ruleType"] = "conditionGroup"

\* CorrectField building a new dict of id, dataSource and field.
CorrectFieldRebuilds(d) ==
    [ id |-> d["id"], dataSource |-> d["dataSource"],
      field |-> correct_column_name(Get(d, "field", <<>>)) ]

\* d["field"] = correct_column_name(d.get("field", ""))
CorrectField(d) ==
    ("field" :> correct_column_name(Get(d, "field", <<>>))) @@ d

\* One iteration of the first pass.
CorrectItem(rule_item) ==
    IF IsConditionGroup(rule_item)
    THEN IF "conditions" \in DOMAIN rule_item
         THEN [ rule_item EXCEPT !["conditions"] =
                    [ j \in 1..Len(@) |-> CorrectField(@[j]) ] ]
         ELSE rule_item
    ELSE CorrectField(rule_item)

\* Whether the first pass left by an exception while at this item.
ItemRaised(rule_item) ==
    IF IsConditionGroup(rule_item)
    THEN \E j \in 1..Len(Get(rule_item, "conditions", <<>>)) :
            rule_item["conditions"][j]["field"] = AttributeError
    ELSE rule_item["field"] = AttributeError

\* SecondPass keeping the standalone conditions and removing the groups.
SecondPassKeepsConditions(rules) ==
    IF \E i \in 1..Len(rules) : IsConditionGroup(rules[i])
    THEN SelectSeq(rules, LAMBDA r : ~IsConditionGroup(r))
    ELSE rules

\* validate_and_correct_columns, lines 118-127: the second pass.
SecondPass(rules) ==
    IF \E i \in 1..Len(rules) : IsConditionGroup(rules[i])
    THEN SelectSeq(rules, IsConditionGroup)
    ELSE rules

\* validate_and_correct_columns once the first pass has made `rules` of rule["rules"].
AfterFirstPass(rule, rules) ==
    IF \E i \in 1..Len(rules) : ItemRaised(rules[i]) THEN Exception
    ELSE [ rule EXCEPT !["rules"] = SecondPass(rules) ]

validate_and_correct_columns(rule) ==
    IF ~Truthy(rule) \/ "rules" \notin DOMAIN rule THEN rule
    ELSE AfterFirstPass(rule,
                        [ i \in 1..Len(rule["rules"]) |-> CorrectItem(rule["rules"][i]) ])

----------------------------------------------------------------------------
(* Text normalisation *)

IsSpace(c) == c \in {" ", "\t", "\n"}

\* text.split(): the words of text[i..], `word` being the one under construction.
RECURSIVE SplitFrom(_, _, _)
SplitFrom(text, i, word) ==
    LET done == IF Len(word) = 0 THEN <<>> ELSE << word >>
    IN  IF i > Len(text) THEN done
        ELSE IF IsSpace(text[i]) THEN done \o SplitFrom(text, i + 1, <<>>)
        ELSE SplitFrom(text, i + 1, Append(word, text[i]))

\* sep.join(words)
RECURSIVE Join(_, _)
Join(sep, words) ==
    IF Len(words) = 0 THEN <<>>
    ELSE IF Len(words) = 1 THEN words[1]
    ELSE words[1] \o sep \o Join(sep, Tail(words))

\* s[i..].replace(old, new): leftmost, non-overlapping occurrences.
RECURSIVE ReplaceFrom(_, _, _, _)
ReplaceFrom(s, i, old, new) ==
    IF i > Len(s) THEN <<>>
    ELSE IF i + Len(old) - 1 <= Len(s) /\ SubSeq(s, i, i + Len(old) - 1) = old
    THEN new \o ReplaceFrom(s, i + Len(old), old, new)
    ELSE << s[i] >> \o ReplaceFrom(s, i + 1, old, new)

Replace(s, old, new) == ReplaceFrom(s, 1, old, new)

clean_user_input(text) ==
    LET joined == Join(<< " " >>, SplitFrom(text, 1, <<>>))
        r1 == Replace(joined, << " ","o"," ","n"," " >>, << " ","o","n"," " >>)
        r2 == Replace(r1, << " ","A"," ","N"," ","D"," " >>, << " ","A","N","D"," " >>)
    IN  Replace(r2, << " ","O"," ","R"," " >>, << " ","O","R"," " >>)

----------------------------------------------------------------------------
(* Rule generator *)

\* Field names used by the sample conditions.
f_amount == << "a","m","o","u","n","t" >>

f_Amount == << "A","m","o","u","n","t" >>

f_total_spend == << "t","o","t","a","l","_","s","p","e","n","d" >>

f_status == << "s","t","a","t","u","s" >>

f_foo == << "f","o","o" >>

\* Sample conditions a model response may hold.
cond_exact ==
    [ id |-> "c1", dataSource |-> "sample_telco_billing.csv", field |-> f_amount,
      eligibilityPeriod |-> "Rolling 30 days", function |-> "sum",
      operator |-> "greater_than", value |-> "100", priority |-> "null",
      ruleType |-> "condition", connector |-> "AND" ]

cond_case ==
    [ id |-> "c2", dataSource |-> "sample_telco_billing.csv", field |-> f_Amount,
      ruleType |-> "condition", connector |-> "OR" ]

cond_alias ==
    [ id |-> "c3", dataSource |-> "sample_telco_billing.csv", field |-> f_total_spend,
      ruleType |-> "condition" ]

cond_other_source ==
    [ id |-> "c4", dataSource |-> "sample_telco_billing.csv", field |-> f_status,
      ruleType |-> "condition" ]

cond_unknown ==
    [ id |-> "c5", dataSource |-> "unknown.csv", field |-> f_foo,
      ruleType |-> "condition" ]

cond_no_field ==
    [ id |-> "c6", dataSource |-> "sample_customer_profiles.csv" ]

cond_number ==
    [ id |-> "c7", dataSource |-> "sample_telco_billing.csv", field |-> JsonNumber,
      ruleType |-> "condition" ]

Group(gid, conditions) ==
    [ id |-> gid, ruleType |-> "conditionGroup", connector |-> "AND",
      conditions |-> conditions ]

\* What json.loads makes of the text between a response's outer braces, by the
\* name that stands for that text in a response.
JsonObjects ==
    [ exact      |-> [ rules |-> << Group("g1", << cond_exact >>) >> ],
      fixable    |-> [ rules |-> << cond_case,
                                   Group("g2", << cond_alias, cond_no_field, cond_unknown >>) >> ],
      no_rules   |-> [ status |-> "none" ],
      number     |-> [ rules |-> << cond_number >> ] ]

\* response_content: a sequence of pieces, each "{", "}", a piece of prose
\* holding no brace, or the name of the text of a JSON object's members.
ResponseContents ==
    { << "Here is the rule: ", "{", "fixable", "}", " Let me know." >>,
      << "{", "number", "}" >>,
      << "{", "}" >>,
      << "{", "no_rules", "}" >>,
      << "I cannot help with that." >>,
      << "}", " then ", "{" >>,
      << "{", "exact", "}", " or ", "{", "exact", "}" >> }

\* What client.chat.completions.create does: it raises, or returns a content.
ModelOutcomes ==
    { [ raised |-> TRUE, content |-> <<>> ] }
        \cup { [ raised |-> FALSE, content |-> c ] : c \in ResponseContents }

\* s.find(c): 0-based index of the first occurrence, -1 if none.
Find(s, c) ==
    IF \E i \in 1..Len(s) : s[i] = c
    THEN (CHOOSE i \in 1..Len(s) : s[i] = c /\ \A j \in 1..(i - 1) : s[j] # c) - 1
    ELSE -1

\* RFind as find: the first occurrence.
RFindFirst(s, c) == Find(s, c)

\* s.rfind(c): 0-based index of the last occurrence, -1 if none.
RFind(s, c) ==
    IF \E i \in 1..Len(s) : s[i] = c
    THEN (CHOOSE i \in 1..Len(s) : s[i] = c /\ \A j \in (i + 1)..Len(s) : s[j] # c) - 1
    ELSE -1

\* s[a:b] for 0 <= a, 0 <= b <= len(s)
Slice(s, a, b) == IF a < b THEN SubSeq(s, a + 1, b) ELSE <<>>

\* json.loads(json_str): a dict, or Exception for json.JSONDecodeError.
json_loads(json_str) ==
    IF json_str = << "{", "}" >> THEN EmptyDict
    ELSE IF /\ Len(json_str) = 3
            /\ json_str[1] = "{"
            /\ json_str[3] = "}"
            /\ json_str[2] \in DOMAIN JsonObjects
    THEN JsonObjects[json_str[2]]
    ELSE Exception

\* generate_prompt_guidance: the pieces of the prompt that depend on its arguments.
generate_prompt_guidance(user_input, modification_request) ==
    << "You are a financial rule generation assistant. ... The user has provided this requirement: \"" >>
        \o user_input \o << "\"" >>
        \o ( IF TruthyStr(modification_request)
             THEN << "The user requested these modifications: " >> \o modification_request
             ELSE <<>> )
        \o << "Respond ONLY with the JSON output." >>

\* `return validate_and_correct_columns(rule)`, json.loads having made `rule`.
ValidateLoaded(rule) ==
    IF rule = Exception THEN Exception ELSE validate_and_correct_columns(rule)

\* `except Exception as e: ... return None`
NoneIfException(v) == IF v = Exception THEN None ELSE v

\* generate_rule_with_llama, lines 190-200, with the two indexes found.
ExtractBetween(response_content, json_start, json_end) ==
    IF json_start = -1 \/ json_end = 0 THEN None
    ELSE NoneIfException(
             ValidateLoaded(json_loads(Slice(response_content, json_start, json_end))))

\* generate_rule_with_llama, lines 187-200: what it makes of a response content
\* (None when it returns None or an exception is caught).
ExtractAndValidate(response_content) ==
    ExtractBetween(response_content,
                   Find(response_content, "{"),
                   RFind(response_content, "}") + 1)

\* ExtractAndValidate, tabulated over the response contents of the model.
Extracted == [ c \in ResponseContents |-> ExtractAndValidate(c) ]

\* generate_rule_with_llama, `outcome` being what the model call does.
generate_rule_with_llama(user_input, modification_request, outcome) ==
    IF outcome.raised THEN None ELSE Extracted[outcome.content]

----------------------------------------------------------------------------
(* Conversation state *)

\* Keys of a node in the order json.dumps writes them here.
KeyOrder ==
    << "id", "dataSource", "field", "eligibilityPeriod", "function", "operator",
       "value", "priority", "ruleType", "connector", "status",
       "conditions", "rules" >>

\* json.dumps(v): a sequence of pieces.
RECURSIVE DumpDict(_, _), DumpList(_, _)
DumpDict(d, k) ==
    IF k > Len(KeyOrder) THEN <<>>
    ELSE LET key == KeyOrder[k]
             rest == DumpDict(d, k + 1)
         IN  IF key \notin DOMAIN d THEN rest
             ELSE IF key \in {"conditions", "rules"}
             THEN << key, "[" >> \o DumpList(d[key], 1) \o << "]" >> \o rest
             ELSE IF key = "field"
             THEN << key, "<" >> \o d[key] \o << ">" >> \o rest
             ELSE << key, d[key] >> \o rest

DumpList(l, i) ==
    IF i > Len(l) THEN <<>>
    ELSE << "{" >> \o DumpDict(l[i], 1) \o << "}" >> \o DumpList(l, i + 1)

json_dumps(d) == << "{" >> \o DumpDict(d, 1) \o << "}" >>

Message(role, content) == [ role |-> role, content |-> content ]

Greeting ==
    Message("assistant",
            << "Hello! I can help you create mortgage holder rules. What criteria would you like to use?" >>)

NewRuleGreeting ==
    Message("assistant",
            << "Let's create a new rule. What criteria would you like to use?" >>)

FinalRuleMessage == Message("assistant", << "Great! Here's your final rule:" >>)

ChangesMessage ==
    Message("assistant", << "What changes would you like to make to the rule?" >>)

FailureMessage ==
    Message("assistant",
            << "I couldn't generate a valid rule. Could you please provide more details?" >>)

PreviewMessage(new_rule) ==
    Message("assistant",
            << "I've generated this rule:" >> \o json_dumps(new_rule)
                \o << "Does this meet your requirements?" >>)

\* What the user may type into st.chat_input: any non-empty text.
t_space == << " " >>

t_yes == << "Y","e","s" >>

t_spaced == << "x"," ","o"," ","n"," ","o"," ","n"," ","y" >>

UserTexts == { t_space, t_yes, t_spaced }

\* clean_user_input, tabulated over what is typed and what the history holds.
CleanedInput ==
    [ t \in UserTexts \cup { clean_user_input(u) : u \in UserTexts } |->
          clean_user_input(t) ]

\* Turns of the conversation the model follows.
MaxTurns == 5

VARIABLES
    messages,               \* st.session_state.messages
    current_rule,           \* st.session_state.current_rule
    confirmed,              \* st.session_state.confirmed
    user_prompt,            \* st.session_state.user_prompt
    awaiting_confirmation,  \* st.session_state.awaiting_confirmation
    awaiting_modification,  \* st.session_state.awaiting_modification
    run,                    \* what the last script run did (history)
    candidate,              \* validator run alone: the dict handed to it
    validated,              \* validator run alone: what it returned
    revalidated,            \* validator run alone: what it returned for `validated`
    vpc,                    \* a function run alone: position
    field_name,             \* correct_column_name run alone: its argument
    corrected,              \* correct_column_name run alone: what it returned
    response_content,       \* extraction run alone: the model's output
    generated,              \* extraction run alone: what came of it
    typed,                  \* clean_user_input run alone: its argument
    cleaned,                \* clean_user_input run alone: what it returned
    recleaned               \* clean_user_input run alone: what it returned for `cleaned`

state == << messages, current_rule, confirmed, user_prompt,
            awaiting_confirmation, awaiting_modification >>

cleaning == << typed, cleaned, recleaned >>

functions == << field_name, corrected, response_content, generated, cleaning >>

validator == << candidate, validated, revalidated, vpc, functions >>

vars == << messages, current_rule, confirmed, user_prompt,
           awaiting_confirmation, awaiting_modification, run,
           candidate, validated, revalidated, vpc,
           field_name, corrected, response_content, generated,
           typed, cleaned, recleaned >>

\* The record of a script run: the branch of main it took, the text typed, the
\* calls of generate_rule_with_llama it made and what the last one returned.
Run(branch, prompt, calls, new_rule) ==
    [ branch |-> branch, prompt |-> prompt, calls |-> calls, new_rule |-> new_rule ]

Call(user_input, modification_request) ==
    [ user_input |-> user_input,
      modification_request |-> modification_request,
      prompt |-> generate_prompt_guidance(user_input, modification_request) ]

\* initialize_session_state on the session's first run.
InitSession ==
    /\ messages = << Greeting >>
    /\ current_rule = None
    /\ confirmed = FALSE
    /\ user_prompt = <<>>
    /\ awaiting_confirmation = FALSE
    /\ awaiting_modification = FALSE
    /\ run = Run("start", <<>>, <<>>, None)

CleaningIdle ==
    /\ typed = <<>>
    /\ cleaned = <<>>
    /\ recleaned = <<>>

FunctionsIdle ==
    /\ field_name = NoneStr
    /\ corrected = NoneStr
    /\ response_content = <<>>
    /\ generated = None
    /\ CleaningIdle

ValidatorIdle ==
    /\ candidate = None
    /\ validated = None
    /\ revalidated = None
    /\ vpc = "idle"
    /\ FunctionsIdle

Init ==
    /\ InitSession
    /\ ValidatorIdle

\* AfterGeneration with `st.session_state.current_rule = new_rule` ahead of
\* `if new_rule:`.
AfterGenerationAssignsFirst(branch, prompt, msgs, rule_before, calls, new_rule) ==
    /\ run' = Run(branch, prompt, calls, new_rule)
    /\ current_rule' = new_rule
    /\ IF Truthy(new_rule)
       THEN /\ messages' = Append(msgs, PreviewMessage(new_rule))
            /\ awaiting_confirmation' = TRUE
            /\ awaiting_modification' = FALSE
       ELSE /\ messages' = Append(msgs, FailureMessage)
            /\ UNCHANGED << awaiting_confirmation, awaiting_modification >>

\* AfterGeneration asking for confirmation after a failure as well.
AfterGenerationAlwaysAwaits(branch, prompt, msgs, rule_before, calls, new_rule) ==
    /\ run' = Run(branch, prompt, calls, new_rule)
    /\ awaiting_confirmation' = TRUE
    /\ awaiting_modification' = FALSE
    /\ IF Truthy(new_rule)
       THEN /\ current_rule' = new_rule
            /\ messages' = Append(msgs, PreviewMessage(new_rule))
       ELSE /\ current_rule' = rule_before
            /\ messages' = Append(msgs, FailureMessage)

\* AfterGeneration without `st.session_state.awaiting_modification = False`.
AfterGenerationKeepsModification(branch, prompt, msgs, rule_before, calls, new_rule) ==
    /\ run' = Run(branch, prompt, calls, new_rule)
    /\ IF Truthy(new_rule)
       THEN /\ current_rule' = new_rule
            /\ messages' = Append(msgs, PreviewMessage(new_rule))
            /\ awaiting_confirmation' = TRUE
            /\ UNCHANGED awaiting_modification
       ELSE /\ current_rule' = rule_before
            /\ messages' = Append(msgs, FailureMessage)
            /\ UNCHANGED << awaiting_confirmation, awaiting_modification >>

\* generate_new_rule, lines 391-404: `new_rule` is what generate_rule_with_llama
\* returned, `calls` the calls made of it.
AfterGeneration(branch, prompt, msgs, rule_before, calls, new_rule) ==
    /\ run' = Run(branch, prompt, calls, new_rule)
    /\ IF Truthy(new_rule)
       THEN /\ current_rule' = new_rule
            /\ messages' = Append(msgs, PreviewMessage(new_rule))
            /\ awaiting_confirmation' = TRUE
            /\ awaiting_modification' = FALSE
       ELSE /\ current_rule' = rule_before
            /\ messages' = Append(msgs, FailureMessage)
            /\ UNCHANGED << awaiting_confirmation, awaiting_modification >>

\* GenerateWith calling the model a second time when the first call gave no rule.
GenerateWithRetry(branch, prompt, msgs, requirement, rule_before, modification_request, outcome) ==
    AfterGeneration(branch, prompt, msgs, rule_before,
                    IF Truthy(generate_rule_with_llama(requirement, modification_request, outcome))
                    THEN << Call(requirement, modification_request) >>
                    ELSE << Call(requirement, modification_request),
                            Call(requirement, modification_request) >>,
                    generate_rule_with_llama(requirement, modification_request, outcome))

\* generate_new_rule, lines 385-389, with modification_request decided.
GenerateWith(branch, prompt, msgs, requirement, rule_before, modification_request, outcome) ==
    AfterGeneration(branch, prompt, msgs, rule_before,
                    << Call(requirement, modification_request) >>,
                    generate_rule_with_llama(requirement, modification_request, outcome))

\* generate_new_rule, entered with messages = msgs, user_prompt = requirement and
\* current_rule = rule_before; `outcome` is what the model call does.
generate_new_rule(branch, prompt, msgs, requirement, rule_before, outcome) ==
    GenerateWith(branch, prompt, msgs, requirement, rule_before,
                 IF awaiting_modification /\ msgs[Len(msgs)].role = "user"
                 THEN CleanedInput[msgs[Len(msgs)].content]
                 ELSE NoneStr,
                 outcome)

\* handle_user_confirmation appending no message when the rule is confirmed.
handle_user_confirmation_silent(confirmation, msgs) ==
    IF confirmation
    THEN /\ confirmed' = TRUE
         /\ awaiting_confirmation' = FALSE
         /\ messages' = msgs
         /\ UNCHANGED awaiting_modification
    ELSE /\ awaiting_confirmation' = FALSE
         /\ awaiting_modification' = TRUE
         /\ messages' = Append(msgs, ChangesMessage)
         /\ UNCHANGED confirmed

\* handle_user_confirmation, entered with messages = msgs.
handle_user_confirmation(confirmation, msgs) ==
    IF confirmation
    THEN /\ confirmed' = TRUE
         /\ awaiting_confirmation' = FALSE
         /\ messages' = Append(msgs, FinalRuleMessage)
         /\ UNCHANGED awaiting_modification
    ELSE /\ awaiting_confirmation' = FALSE
         /\ awaiting_modification' = TRUE
         /\ messages' = Append(msgs, ChangesMessage)
         /\ UNCHANGED confirmed

\* `"yes" in cleaned_prompt.lower() or "correct" in cleaned_prompt.lower()`,
\* with lowered = cleaned_prompt.lower().
IsAffirmative(lowered) ==
    \/ Contains(lowered, << "y","e","s" >>)
    \/ Contains(lowered, << "c","o","r","r","e","c","t" >>)

\* main, lines 493-494: st.session_state.messages with the user message appended.
Appended(cleaned_prompt) == Append(messages, Message("user", cleaned_prompt))

\* FirstPrompt storing and passing on the text as typed, not as cleaned.
FirstPromptStoresRaw(prompt, outcome) ==
    /\ ~TruthyStr(user_prompt)
    /\ user_prompt' = prompt
    /\ generate_new_rule("first", prompt, Appended(CleanedInput[prompt]),
                         prompt, current_rule, outcome)
    /\ UNCHANGED << confirmed, validator >>

\* main, `if not st.session_state.user_prompt:` -- first prompt.
FirstPrompt(prompt, outcome) ==
    LET cleaned_prompt == CleanedInput[prompt]
    IN  /\ ~TruthyStr(user_prompt)
        /\ user_prompt' = cleaned_prompt
        /\ generate_new_rule("first", prompt, Appended(cleaned_prompt),
                             cleaned_prompt, current_rule, outcome)
        /\ UNCHANGED << confirmed, validator >>

\* ConfirmationReply appending the text as typed to the history.
ConfirmationReplyAppendsRaw(prompt) ==
    /\ TruthyStr(user_prompt)
    /\ awaiting_confirmation
    /\ handle_user_confirmation(IsAffirmative(Lower(CleanedInput[prompt])),
                                Appended(prompt))
    /\ run' = Run("confirmation", prompt, <<>>, None)
    /\ UNCHANGED << current_rule, user_prompt, validator >>

\* main, `elif st.session_state.awaiting_confirmation:`
ConfirmationReply(prompt) ==
    LET cleaned_prompt == CleanedInput[prompt]
    IN  /\ TruthyStr(user_prompt)
        /\ awaiting_confirmation
        /\ handle_user_confirmation(IsAffirmative(Lower(cleaned_prompt)),
                                    Appended(cleaned_prompt))
        /\ run' = Run("confirmation", prompt, <<>>, None)
        /\ UNCHANGED << current_rule, user_prompt, validator >>

\* ModificationReply taking the reply for the requirement, as a first prompt does.
ModificationReplyAsRequirement(prompt, outcome) ==
    /\ TruthyStr(user_prompt)
    /\ ~awaiting_confirmation
    /\ awaiting_modification
    /\ user_prompt' = CleanedInput[prompt]
    /\ generate_new_rule("modification", prompt, Appended(CleanedInput[prompt]),
                         CleanedInput[prompt], current_rule, outcome)
    /\ UNCHANGED << confirmed, validator >>

\* main, `elif st.session_state.awaiting_modification:`
ModificationReply(prompt, outcome) ==
    /\ TruthyStr(user_prompt)
    /\ ~awaiting_confirmation
    /\ awaiting_modification
    /\ generate_new_rule("modification", prompt, Appended(CleanedInput[prompt]),
                         user_prompt, current_rule, outcome)
    /\ UNCHANGED << confirmed, user_prompt, validator >>

\* NewConversation without `st.session_state.confirmed = False`.
NewConversationKeepsConfirmed(prompt, outcome) ==
    /\ TruthyStr(user_prompt)
    /\ ~awaiting_confirmation
    /\ ~awaiting_modification
    /\ user_prompt' = CleanedInput[prompt]
    /\ generate_new_rule("new", prompt, Appended(CleanedInput[prompt]),
                         CleanedInput[prompt], None, outcome)
    /\ UNCHANGED << confirmed, validator >>

\* NewConversation without `st.session_state.user_prompt = cleaned_prompt`.
NewConversationKeepsRequirement(prompt, outcome) ==
    /\ TruthyStr(user_prompt)
    /\ ~awaiting_confirmation
    /\ ~awaiting_modification
    /\ confirmed' = FALSE
    /\ generate_new_rule("new", prompt, Appended(CleanedInput[prompt]),
                         user_prompt, None, outcome)
    /\ UNCHANGED << user_prompt, validator >>

\* main, `else:` -- new conversation.
NewConversation(prompt, outcome) ==
    LET cleaned_prompt == CleanedInput[prompt]
    IN  /\ TruthyStr(user_prompt)
        /\ ~awaiting_confirmation
        /\ ~awaiting_modification
        /\ user_prompt' = cleaned_prompt
        /\ confirmed' = FALSE
        /\ generate_new_rule("new", prompt, Appended(cleaned_prompt),
                             cleaned_prompt, None, outcome)
        /\ UNCHANGED validator

\* CreateNewRule without `st.session_state.user_prompt = ""`.
CreateNewRuleKeepsPrompt ==
    /\ Truthy(current_rule)
    /\ confirmed
    /\ messages' = << NewRuleGreeting >>
    /\ current_rule' = None
    /\ confirmed' = FALSE
    /\ run' = Run("reset", <<>>, <<>>, None)
    /\ UNCHANGED << user_prompt, awaiting_confirmation, awaiting_modification, validator >>

\* main, lines 456-481: the "Create New Rule" button, shown with a confirmed rule.
CreateNewRule ==
    /\ Truthy(current_rule)
    /\ confirmed
    /\ messages' = << NewRuleGreeting >>
    /\ current_rule' = None
    /\ confirmed' = FALSE
    /\ user_prompt' = <<>>
    /\ run' = Run("reset", <<>>, <<>>, None)
    /\ UNCHANGED << awaiting_confirmation, awaiting_modification, validator >>

\* The conversation is followed for MaxTurns user messages since its last reset.
TurnLeft == Len(messages) < 2 * MaxTurns

Next ==
    \/ \E prompt \in UserTexts, outcome \in ModelOutcomes :
           TurnLeft /\ FirstPrompt(prompt, outcome)
    \/ \E prompt \in UserTexts :
           TurnLeft /\ ConfirmationReply(prompt)
    \/ \E prompt \in UserTexts, outcome \in ModelOutcomes :
           TurnLeft /\ ModificationReply(prompt, outcome)
    \/ \E prompt \in UserTexts, outcome \in ModelOutcomes :
           TurnLeft /\ NewConversation(prompt, outcome)
    \/ CreateNewRule

Spec == Init /\ [][Next]_vars

----------------------------------------------------------------------------
(* The validator run alone, on every candidate of bounded size *)

\* Nodes (top-level entries and the conditions inside groups) of a candidate.
MaxSize == 3

SampleConditions ==
    { cond_exact, cond_case, cond_alias, cond_other_source, cond_unknown,
      cond_no_field, cond_number }

\* The top-level entries that count for k nodes.
NodesOfSize(k) ==
    IF k = 1
    THEN SampleConditions
            \cup { Group("g1", <<>>), [ id |-> "g0", ruleType |-> "conditionGroup" ] }
    ELSE { Group("g1", cs) : cs \in [ 1..(k - 1) -> SampleConditions ] }

RECURSIVE RuleLists(_)
RuleLists(n) ==
    { <<>> } \cup
    UNION { { << node >> \o rest : node \in NodesOfSize(k), rest \in RuleLists(n - k) } :
            k \in 1..n }

Candidates ==
    { [ rules |-> l ] : l \in RuleLists(MaxSize) }
        \cup { EmptyDict, JsonObjects.no_rules }

InitValidator ==
    /\ InitSession
    /\ candidate \in Candidates
    /\ validated = None
    /\ revalidated = None
    /\ vpc = "input"
    /\ FunctionsIdle

Validate ==
    /\ vpc = "input"
    /\ validated' = validate_and_correct_columns(candidate)
    /\ vpc' = "validated"
    /\ UNCHANGED << state, run, candidate, revalidated, functions >>

Revalidate ==
    /\ vpc = "validated"
    /\ validated # Exception
    /\ revalidated' = validate_and_correct_columns(validated)
    /\ vpc' = "revalidated"
    /\ UNCHANGED << state, run, candidate, validated, functions >>

NextValidator == Validate \/ Revalidate

SpecValidator == InitValidator /\ [][NextValidator]_vars

----------------------------------------------------------------------------
(* correct_column_name run alone, on field names of bounded length *)

\* Words a field name is made of: the partial names of `variations`, a word
\* that matches none, and two capitalised ones.
FieldWords ==
    { variations[i][1] : i \in 1..Len(variations) }
        \cup { f_foo, << "P","a","y","m","e","n","t" >>, << "D","a","t","e" >> }

\* Words in a field name, joined by "_".
MaxWords == 2

RECURSIVE FieldNamesOf(_)
FieldNamesOf(n) ==
    IF n = 0 THEN {}
    ELSE FieldWords
            \cup { w \o << "_" >> \o rest : w \in FieldWords, rest \in FieldNamesOf(n - 1) }

FieldNames == FieldNamesOf(MaxWords) \cup { <<>>, JsonNumber }

InitCorrect ==
    /\ InitSession
    /\ candidate = None
    /\ validated = None
    /\ revalidated = None
    /\ vpc = "field_name"
    /\ field_name \in FieldNames
    /\ corrected = NoneStr
    /\ response_content = <<>>
    /\ generated = None
    /\ CleaningIdle

Correct ==
    /\ vpc = "field_name"
    /\ corrected' = correct_column_name(field_name)
    /\ vpc' = "corrected"
    /\ UNCHANGED << state, run, candidate, validated, revalidated,
                    field_name, response_content, generated, cleaning >>

NextCorrect == Correct

SpecCorrect == InitCorrect /\ [][NextCorrect]_vars

----------------------------------------------------------------------------
(* The extraction of generate_rule_with_llama run alone, on bounded outputs *)

\* Pieces of a model output: a brace, prose holding no brace, or the name that
\* stands for the members of a JSON object.
Pieces == { "{", "}", " prose ", "fixable", "number" }

MaxPieces == 5

RawOutputs == UNION { [ 1..n -> Pieces ] : n \in 0..MaxPieces }

InitExtract ==
    /\ InitSession
    /\ candidate = None
    /\ validated = None
    /\ revalidated = None
    /\ vpc = "response_content"
    /\ field_name = NoneStr
    /\ corrected = NoneStr
    /\ response_content \in RawOutputs
    /\ generated = None
    /\ CleaningIdle

Extract ==
    /\ vpc = "response_content"
    /\ generated' = ExtractAndValidate(response_content)
    /\ vpc' = "generated"
    /\ UNCHANGED << state, run, candidate, validated, revalidated,
                    field_name, corrected, response_content, cleaning >>

NextExtract == Extract

SpecExtract == InitExtract /\ [][NextExtract]_vars

----------------------------------------------------------------------------
(* clean_user_input run alone, on texts of a bounded number of words *)

\* One-letter words, as an upstream input that spaces letters out gives them.
TextWords == { << "x" >>, << "o" >>, << "n" >>, << "O" >>, << "R" >> }

MaxTextWords == 6

\* What stands between two words: one space, or two.
Separators == { << " " >>, << " ", " " >> }

\* The texts of up to `most` words.
Texts(most) ==
    { Join(sep, ws) :
          sep \in Separators,
          ws \in UNION { [ 1..n -> TextWords ] : n \in 0..most } }

InitClean ==
    /\ InitSession
    /\ candidate = None
    /\ validated = None
    /\ revalidated = None
    /\ vpc = "typed"
    /\ field_name = NoneStr
    /\ corrected = NoneStr
    /\ response_content = <<>>
    /\ generated = None
    /\ typed \in Texts(MaxTextWords)
    /\ cleaned = <<>>
    /\ recleaned = <<>>

\* clean_user_input(prompt), line 493.
Clean ==
    /\ vpc = "typed"
    /\ cleaned' = clean_user_input(typed)
    /\ vpc' = "cleaned"
    /\ UNCHANGED << state, run, candidate, validated, revalidated,
                    field_name, corrected, response_content, generated,
                    typed, recleaned >>

\* clean_user_input of a stored message, lines 365 and 383.
CleanAgain ==
    /\ vpc = "cleaned"
    /\ recleaned' = clean_user_input(cleaned)
    /\ vpc' = "recleaned"
    /\ UNCHANGED << state, run, candidate, validated, revalidated,
                    field_name, corrected, response_content, generated,
                    typed, cleaned >>

NextClean == Clean \/ CleanAgain

SpecClean == InitClean /\ [][NextClean]_vars

----------------------------------------------------------------------------
(* Vocabulary of the claims *)

\* The phase, read off the session flags.
Phase ==
    IF awaiting_confirmation THEN "AWAITING_CONFIRMATION"
    ELSE IF awaiting_modification THEN "AWAITING_MODIFICATION"
    ELSE IF confirmed THEN "IDLE_WITH_RULE"
    ELSE "AWAITING_FIRST_INPUT"

\* A step that handles a user message (every such step lengthens the history
\* or, after a reset, changes it).
UserStep == vars' # vars /\ run'.branch # "reset"

\* The user message a user step appended.
Reply == messages'[Len(messages) + 1].content

\* A user step whose generation attempt failed.
GenerationFailed == UserStep /\ Len(run'.calls) > 0 /\ ~Truthy(run'.new_rule)

\* A message arriving with no awaiting flag set and a requirement stored: after a
\* confirmation, or after a failed first generation.
NewConversationState ==
    TruthyStr(user_prompt) /\ ~awaiting_confirmation /\ ~awaiting_modification

IdleWithRule == confirmed /\ ~awaiting_confirmation /\ ~awaiting_modification

FirstInputState ==
    /\ ~TruthyStr(user_prompt)
    /\ current_rule = None
    /\ ~awaiting_confirmation
    /\ ~awaiting_modification

\* clean_user_input of each text the user may type, and of what it made of it.
Cleaned == [ t \in UserTexts |-> clean_user_input(t) ]

CleanedTwice == [ t \in UserTexts |-> clean_user_input(clean_user_input(t)) ]

\* A rule preview among the messages, and the last one of a history.
IsPreview(m) ==
    /\ m.role = "assistant"
    /\ Len(m.content) > 0
    /\ m.content[1] = "I've generated this rule:"

LastShown(msgs) ==
    msgs[CHOOSE i \in 1..Len(msgs) :
             IsPreview(msgs[i]) /\ \A j \in (i + 1)..Len(msgs) : ~IsPreview(msgs[j])]

\* Whether the history holds message m.
InHistory(m) == \E i \in 1..Len(messages) : messages[i] = m

\* A condition whose dataSource is a key of the registry and whose field is
\* empty or a column of that dataSource.
ConditionResolved(c) ==
    /\ "dataSource" \in DOMAIN c
    /\ c["dataSource"] \in DOMAIN CSV_STRUCTURES
    /\ \/ Get(c, "field", <<>>) = <<>>
       \/ \E k \in DOMAIN CSV_STRUCTURES[c["dataSource"]] :
              CSV_STRUCTURES[c["dataSource"]][k] = c["field"]

Resolved(rule) ==
    "rules" \in DOMAIN rule =>
        \A i \in 1..Len(rule["rules"]) :
            IF IsConditionGroup(rule["rules"][i])
            THEN \A j \in 1..Len(Get(rule["rules"][i], "conditions", <<>>)) :
                     ConditionResolved(rule["rules"][i]["conditions"][j])
            ELSE ConditionResolved(rule["rules"][i])

\* The validator, run alone, was given a rule list and returned.
Returned ==
    /\ vpc \in {"validated", "revalidated"}
    /\ "rules" \in DOMAIN candidate
    /\ validated # Exception

\* The top-level entries the claims expect to be kept.
Kept(rules) ==
    IF \E i \in 1..Len(rules) : IsConditionGroup(rules[i])
    THEN SelectSeq(rules, IsConditionGroup)
    ELSE rules

\* A node with every "field" left out, its own or its conditions'.
WithoutField(d) == [ k \in DOMAIN d \ {"field"} |-> d[k] ]

Shape(node) ==
    IF IsConditionGroup(node) /\ "conditions" \in DOMAIN node
    THEN [ node EXCEPT !["conditions"] = [ j \in 1..Len(@) |-> WithoutField(@[j]) ] ]
    ELSE IF IsConditionGroup(node) THEN node
    ELSE WithoutField(node)

\* << node given, node returned >> for the kept top-level entries, and
\* << condition given, condition returned >> for the conditions among them and
\* inside them.
NodePairs ==
    { << Kept(candidate["rules"])[k], validated["rules"][k] >> :
          k \in 1..Len(validated["rules"]) }

ConditionPairs ==
    { p \in NodePairs : ~IsConditionGroup(p[1]) }
        \cup UNION { { << p[1]["conditions"][j], p[2]["conditions"][j] >> :
                           j \in 1..Len(Get(p[1], "conditions", <<>>)) } :
                     p \in { q \in NodePairs : IsConditionGroup(q[1]) } }

\* Every condition of a rule list, top-level or nested.
AllConditions(rules) ==
    { rules[i] : i \in { k \in 1..Len(rules) : ~IsConditionGroup(rules[k]) } }
        \cup UNION { { rules[i]["conditions"][j] :
                           j \in 1..Len(Get(rules[i], "conditions", <<>>)) } :
                     i \in { k \in 1..Len(rules) : IsConditionGroup(rules[k]) } }

\* The columns of a condition's dataSource (none for an unknown one).
OwnColumns(c) ==
    IF "dataSource" \in DOMAIN c /\ c["dataSource"] \in DOMAIN CSV_STRUCTURES
    THEN { CSV_STRUCTURES[c["dataSource"]][k] :
               k \in DOMAIN CSV_STRUCTURES[c["dataSource"]] }
    ELSE {}

\* Same keys but for "field", and the same value under each.
SameButField(given, returned) ==
    /\ DOMAIN returned \ {"field"} = DOMAIN given \ {"field"}
    /\ \A k \in DOMAIN given \ {"field", "conditions"} : returned[k] = given[k]

\* Every column of the registry.
RegistryColumns ==
    UNION { { CSV_STRUCTURES[src][k] : k \in DOMAIN CSV_STRUCTURES[src] } :
            src \in DOMAIN CSV_STRUCTURES }

\* The positions of a piece in a model output.
Positions(content, piece) == { i \in 1..Len(content) : content[i] = piece }

First(positions) == CHOOSE i \in positions : \A j \in positions : i <= j

Last(positions) == CHOOSE i \in positions : \A j \in positions : j <= i

----------------------------------------------------------------------------
(* Claims *)

\* C1: every rule stored as currentRule has, in every condition (top-level or
\* nested), a dataSource that is a key of the registry and a field that is
\* empty or a column of that dataSource.
C1_StoredRuleResolves == Truthy(current_rule) => Resolved(current_rule)

\* C2 as stated: after any user message whose generation attempt fails,
\* currentRule, confirmed and the phase are what they were before the turn.
C2_FailureKeepsEverything ==
    [][ GenerationFailed =>
            /\ current_rule' = current_rule
            /\ confirmed' = confirmed
            /\ Phase' = Phase ]_vars

\* C2 as amended: a failed generation leaves both awaiting flags as they were;
\* it leaves currentRule, confirmed and the phase as they were for a first
\* input and for a modification reply, while a message arriving with no
\* awaiting flag set and a requirement stored (after a confirmation or after a
\* failed first generation) clears the rule first, so that after the failure
\* currentRule is none, confirmed is false and the phase is
\* AWAITING_FIRST_INPUT.
C2_FailureKeepsOrClears ==
    [][ GenerationFailed =>
            /\ awaiting_confirmation' = awaiting_confirmation
            /\ awaiting_modification' = awaiting_modification
            /\ IF NewConversationState
               THEN /\ current_rule' = None
                    /\ ~confirmed'
                    /\ Phase' = "AWAITING_FIRST_INPUT"
               ELSE /\ current_rule' = current_rule
                    /\ confirmed' = confirmed
                    /\ Phase' = Phase ]_vars

\* C2 witness: a modification reply whose generation failed, the rule kept.
C2_Witness ==
    /\ run.branch = "modification"
    /\ Len(run.calls) = 1
    /\ ~Truthy(run.new_rule)
    /\ Truthy(current_rule)
    /\ awaiting_modification

\* C3 as stated: once a rule is confirmed, a user message changes neither
\* currentRule nor confirmed and triggers no generation.
C3_IdleIsTerminal ==
    [][ (IdleWithRule /\ UserStep) =>
            /\ current_rule' = current_rule
            /\ confirmed' = confirmed
            /\ Len(run'.calls) = 0 ]_vars

\* C3 as amended: with a rule confirmed, the state is left by the
\* start-new-rule reset or by a user message, which starts a new conversation:
\* the message becomes initialRequirement, confirmed becomes false, one
\* generation is invoked with the message and no modification text, and
\* currentRule becomes the generated rule, or none if generation fails.
C3_IdleLeftByResetOrNewConversation ==
    [][ (IdleWithRule /\ UserStep) =>
            /\ run'.branch = "new"
            /\ user_prompt' = Reply
            /\ ~confirmed'
            /\ run'.calls = << Call(Reply, NoneStr) >>
            /\ current_rule' = IF Truthy(run'.new_rule) THEN run'.new_rule ELSE None ]_vars

\* C3 witness: a new conversation started by a message sent after a
\* confirmation, its generation having succeeded.
C3_Witness ==
    /\ run.branch = "new"
    /\ InHistory(FinalRuleMessage)
    /\ Truthy(current_rule)
    /\ awaiting_confirmation

\* C4: from the initial state the first user message is stored as
\* initialRequirement and the generator is invoked with it and no modification;
\* on success the phase is AWAITING_CONFIRMATION, currentRule is the generated
\* rule, confirmed stays false and the history gains the user message and one
\* assistant message, the rule preview.
C4_FirstInput ==
    [][ (FirstInputState /\ UserStep) =>
            /\ Reply = clean_user_input(run'.prompt)
            /\ user_prompt' = Reply
            /\ run'.calls = << Call(Reply, NoneStr) >>
            /\ Truthy(run'.new_rule) =>
                   /\ Phase' = "AWAITING_CONFIRMATION"
                   /\ current_rule' = run'.new_rule
                   /\ ~confirmed'
                   /\ messages' = messages \o << Message("user", Reply),
                                                 PreviewMessage(run'.new_rule) >> ]_vars

\* C4 witness: the first message of a session, generation having succeeded.
C4_Witness ==
    /\ run.branch = "first"
    /\ Len(messages) = 3
    /\ messages[1] = Greeting
    /\ Truthy(current_rule)
    /\ awaiting_confirmation

\* C5: while awaiting confirmation, a reply whose lowercased text contains
\* "yes" or "correct" leads to IDLE_WITH_RULE with confirmed true, any other
\* reply to AWAITING_MODIFICATION with confirmed false; currentRule and
\* initialRequirement are unchanged and the model is not called.
C5_ConfirmationReply ==
    [][ (awaiting_confirmation /\ UserStep) =>
            /\ IF IsAffirmative(Lower(Reply))
               THEN Phase' = "IDLE_WITH_RULE" /\ confirmed'
               ELSE Phase' = "AWAITING_MODIFICATION" /\ ~confirmed'
            /\ current_rule' = current_rule
            /\ user_prompt' = user_prompt
            /\ Len(run'.calls) = 0 ]_vars

C7_Reset ==
    [][ /\ (vars' # vars /\ run'.branch = "reset") =>
               /\ IdleWithRule
               /\ messages' = << NewRuleGreeting >>
               /\ current_rule' = None
               /\ ~confirmed'
               /\ user_prompt' = <<>>
               /\ Phase' = "AWAITING_FIRST_INPUT"
        /\ (run.branch = "reset" /\ UserStep) => run'.branch = "first" ]_vars

\* C7 witness: a first input handled right after a reset.
C7_Witness ==
    /\ run.branch = "first"
    /\ messages[1] = NewRuleGreeting
    /\ Len(messages) = 3

\* C8: a user message leaves the history as it was, followed by the user
\* message and then one assistant message; the last message of the history
\* has role assistant.
C8_OneAssistantMessage ==
    [][ /\ UserStep =>
               /\ Len(messages') = Len(messages) + 2
               /\ SubSeq(messages', 1, Len(messages)) = messages
               /\ messages'[Len(messages) + 1].role = "user"
               /\ messages'[Len(messages) + 2].role = "assistant"
        /\ messages'[Len(messages')].role = "assistant" ]_vars

\* C8 witness: a history holding a failure message, a confirmation and a
\* request for changes.
C8_Witness ==
    /\ InHistory(FailureMessage)
    /\ InHistory(FinalRuleMessage)
    /\ InHistory(ChangesMessage)

\* C9 as stated: every user message triggers exactly one model invocation.
C9_ExactlyOneInvocation == [][ UserStep => Len(run'.calls) = 1 ]_vars

\* C9 as amended: a user message triggers no model invocation when it is
\* handled as a confirmation reply (awaiting confirmation with a requirement
\* stored), and exactly one otherwise.
C9_OneInvocationUnlessConfirmation ==
    [][ UserStep =>
            Len(run'.calls) =
                IF awaiting_confirmation /\ TruthyStr(user_prompt) THEN 0 ELSE 1 ]_vars

\* C9 witness: a confirmation reply, handled without calling the model, later
\* in a conversation that called it for a new conversation.
C9_Witness ==
    /\ run.branch = "confirmation"
    /\ Len(run.calls) = 0
    /\ InHistory(FinalRuleMessage)
    /\ confirmed

\* A rule in which every condition carries a field that is an exact column
\* name and no top-level bare condition stands beside a conditionGroup.
AlreadyValid(rule) ==
    /\ "rules" \in DOMAIN rule
    /\ \A i \in 1..Len(rule["rules"]) :
           IF IsConditionGroup(rule["rules"][i])
           THEN \A j \in 1..Len(Get(rule["rules"][i], "conditions", <<>>)) :
                    /\ "field" \in DOMAIN rule["rules"][i]["conditions"][j]
                    /\ rule["rules"][i]["conditions"][j]["field"] \in Values(COLUMN_MAPPING)
           ELSE /\ "field" \in DOMAIN rule["rules"][i]
                /\ rule["rules"][i]["field"] \in Values(COLUMN_MAPPING)
    /\ \/ \A i \in 1..Len(rule["rules"]) : IsConditionGroup(rule["rules"][i])
       \/ \A i \in 1..Len(rule["rules"]) : ~IsConditionGroup(rule["rules"][i])

\* C10: the validator returns an already valid rule unchanged, and validating
\* what it returned returns the same again.
C10_Idempotent ==
    /\ (vpc \in {"validated", "revalidated"} /\ AlreadyValid(candidate))
           => validated = candidate
    /\ vpc = "revalidated" => revalidated = validated

\* C10 witness: a candidate the validator both corrected and pruned, validated
\* twice.
C10_Witness ==
    /\ vpc = "revalidated"
    /\ validated # candidate
    /\ Len(validated["rules"]) < Len(candidate["rules"])
    /\ \E i \in 1..Len(validated["rules"]) :
           /\ "conditions" \in DOMAIN validated["rules"][i]
           /\ \E j \in 1..Len(validated["rules"][i]["conditions"]) :
                  validated["rules"][i]["conditions"][j]["field"] = f_amount

C14_NoRulesKeyIsSuccess ==
    [][ (UserStep /\ Len(run'.calls) > 0 /\ run'.new_rule # None
            /\ "rules" \notin DOMAIN run'.new_rule) =>
            /\ current_rule' = run'.new_rule
            /\ messages'[Len(messages')] = PreviewMessage(run'.new_rule)
            /\ Phase' = "AWAITING_CONFIRMATION" ]_vars

\* C14 amended: an object with members but no `rules` key is returned as it
\* is, with no `rules` key added, and handled as a successful generation; the
\* empty object is returned too, but the turn handles it as a failure: the
\* failure message is appended, the awaiting flags keep their values and
\* currentRule is not replaced by it.
C14_EmptyObjectIsFailure ==
    [][ (UserStep /\ Len(run'.calls) > 0 /\ run'.new_rule # None
            /\ "rules" \notin DOMAIN run'.new_rule) =>
            IF run'.new_rule = EmptyDict
            THEN /\ current_rule' \in { current_rule, None }
                 /\ messages'[Len(messages')] = FailureMessage
                 /\ awaiting_confirmation' = awaiting_confirmation
                 /\ awaiting_modification' = awaiting_modification
            ELSE /\ current_rule' = run'.new_rule
                 /\ "rules" \notin DOMAIN current_rule'
                 /\ messages'[Len(messages')] = PreviewMessage(run'.new_rule)
                 /\ Phase' = "AWAITING_CONFIRMATION" ]_vars

\* C14 witness: the empty object came back for a modification of a rule that
\* is itself an object without a `rules` key.
C14_Witness ==
    /\ run.branch = "modification"
    /\ run.new_rule = EmptyDict
    /\ current_rule = JsonObjects.no_rules
    /\ messages[Len(messages)] = FailureMessage

\* C18: after a failed generation that left no current rule and no awaiting
\* flag, the next user message replaces initialRequirement and the generator
\* is invoked once with that message as requirement and no modification; on
\* success the phase is AWAITING_CONFIRMATION with the new rule as currentRule.
\* The generator is only ever invoked in a step that appends a user message.
C18_RetryAsFirstInput ==
    [][ /\ ( /\ UserStep
             /\ messages[Len(messages)] = FailureMessage
             /\ current_rule = None
             /\ ~awaiting_confirmation
             /\ ~awaiting_modification ) =>
               /\ user_prompt' = Reply
               /\ run'.calls = << Call(Reply, NoneStr) >>
               /\ Truthy(run'.new_rule) =>
                      /\ Phase' = "AWAITING_CONFIRMATION"
                      /\ current_rule' = run'.new_rule
        /\ (vars' # vars /\ Len(run'.calls) > 0) =>
               /\ Len(messages') = Len(messages) + 2
               /\ messages'[Len(messages) + 1].role = "user" ]_vars

\* C18 witness: the first generation failed with a requirement stored, and the
\* generation for the next message succeeded.
C18_Witness ==
    /\ Len(messages) = 5
    /\ messages[3] = FailureMessage
    /\ TruthyStr(messages[2].content)
    /\ run.branch = "new"
    /\ Truthy(run.new_rule)
    /\ awaiting_confirmation

\* C20: whenever confirmed is true, currentRule is the rule of the last preview
\* shown; and confirmed becomes true only in a step that handles a user reply
\* without calling the model, taken while awaiting confirmation with that
\* preview as the last message (not a failure message or a greeting), and
\* leaving currentRule as it is.
C20_ConfirmedIsLastShown ==
    [][ /\ confirmed' =>
               /\ current_rule' # None
               /\ \E i \in 1..Len(messages') : IsPreview(messages'[i])
               /\ LastShown(messages') = PreviewMessage(current_rule')
        /\ (~confirmed /\ confirmed') =>
               /\ UserStep
               /\ awaiting_confirmation
               /\ Len(run'.calls) = 0
               /\ current_rule' = current_rule
               /\ messages[Len(messages)] = PreviewMessage(current_rule) ]_vars

\* C11: when the validator returns, the rule list it returns is, field names
\* aside, the given top-level conditionGroups in their order if there is one,
\* and the given top-level list otherwise.
C11_Pruning ==
    Returned =>
        /\ Len(validated["rules"]) = Len(Kept(candidate["rules"]))
        /\ \A k \in 1..Len(validated["rules"]) :
               Shape(validated["rules"][k]) = Shape(Kept(candidate["rules"])[k])

\* C11 witness: a bare condition between two different groups was removed.
C11_Witness ==
    /\ Returned
    /\ Len(candidate["rules"]) = 3
    /\ ~IsConditionGroup(candidate["rules"][2])
    /\ Len(validated["rules"]) = 2
    /\ validated["rules"][1]["id"] = "g0"
    /\ validated["rules"][2]["id"] = "g1"

\* C12: a candidate whose fields are all strings is validated without an
\* exception, and each kept condition whose field is not a column as written
\* but is a column of its own dataSource when both are lowercased comes back
\* with that column as its field.
C12_CaseInsensitive ==
    (/\ vpc \in {"validated", "revalidated"}
     /\ "rules" \in DOMAIN candidate
     /\ \A c \in AllConditions(candidate["rules"]) : Get(c, "field", <<>>) # JsonNumber) =>
        /\ validated # Exception
        /\ Len(validated["rules"]) = Len(Kept(candidate["rules"]))
        /\ \A p \in ConditionPairs :
               \A col \in OwnColumns(p[1]) :
                   (/\ TruthyStr(Get(p[1], "field", <<>>))
                    /\ p[1]["field"] \notin Values(COLUMN_MAPPING)
                    /\ Lower(p[1]["field"]) = Lower(col)) => p[2]["field"] = col

\* C12 witness: a nested condition given "Amount" on the billing source came
\* back with "amount".
C12_Witness ==
    /\ Returned
    /\ \E p \in ConditionPairs :
           /\ p[1] = cond_case
           /\ p[2]["field"] = f_amount
           /\ f_amount \in OwnColumns(p[1])
    /\ IsConditionGroup(candidate["rules"][1])

\* C13: the validator fails on every candidate one of whose conditions,
\* top-level or nested, names a dataSource that is not a key of the registry.
C13_UnknownSourceFails ==
    (/\ vpc \in {"validated", "revalidated"}
     /\ "rules" \in DOMAIN candidate
     /\ \E c \in AllConditions(candidate["rules"]) :
            Get(c, "dataSource", "") \notin DOMAIN CSV_STRUCTURES) =>
        validated = Exception

\* C17 as stated: each kept node comes back with the keys it had and, but for
\* "field", the value it had under each; a group comes back with as many
\* conditions, in the same order.
C17_OnlyFieldsChange ==
    Returned =>
        /\ Len(validated["rules"]) = Len(Kept(candidate["rules"]))
        /\ \A p \in NodePairs :
               /\ SameButField(p[1], p[2])
               /\ DOMAIN p[2] = DOMAIN p[1]
               /\ "conditions" \in DOMAIN p[1] =>
                      Len(p[2]["conditions"]) = Len(p[1]["conditions"])
        /\ \A p \in ConditionPairs :
               /\ SameButField(p[1], p[2])
               /\ DOMAIN p[2] = DOMAIN p[1]

\* C17 amended: as C17, but a kept condition that had no "field" key comes
\* back with one, holding the empty string.
C17_FieldKeyAdded ==
    Returned =>
        /\ Len(validated["rules"]) = Len(Kept(candidate["rules"]))
        /\ \A p \in NodePairs :
               /\ SameButField(p[1], p[2])
               /\ IsConditionGroup(p[1]) => DOMAIN p[2] = DOMAIN p[1]
               /\ "conditions" \in DOMAIN p[1] =>
                      Len(p[2]["conditions"]) = Len(p[1]["conditions"])
        /\ \A p \in ConditionPairs :
               /\ SameButField(p[1], p[2])
               /\ DOMAIN p[2] = DOMAIN p[1] \cup {"field"}
               /\ "field" \notin DOMAIN p[1] => p[2]["field"] = <<>>

\* C17 witness: a group came back with its two conditions in order, the first
\* with every key it had and a "field" key added, the second with its operator,
\* value, period and function.
C17_Witness ==
    /\ Returned
    /\ candidate["rules"] = << Group("g1", << cond_no_field, cond_exact >>) >>
    /\ validated["rules"][1]["conditions"][1] = (("field" :> <<>>) @@ cond_no_field)
    /\ validated["rules"][1]["conditions"][2] = cond_exact

\* C16: a non-empty field name that is no column, as written or lowercased,
\* comes back as the full name of the first variation, in the order of the
\* table, whose partial name is in the lowercased field name, and comes back
\* unchanged when there is none.
C16_FirstAliasWins ==
    (/\ vpc = "corrected"
     /\ TruthyStr(field_name)
     /\ field_name # JsonNumber
     /\ field_name \notin RegistryColumns
     /\ Lower(field_name) \notin { Lower(col) : col \in RegistryColumns }) =>
        IF \E i \in 1..Len(variations) : Contains(Lower(field_name), variations[i][1])
        THEN \E i \in 1..Len(variations) :
                 /\ Contains(Lower(field_name), variations[i][1])
                 /\ \A j \in 1..(i - 1) : ~Contains(Lower(field_name), variations[j][1])
                 /\ corrected = variations[i][2]
        ELSE corrected = field_name

\* C16 witness: "transaction_date" holds the third and the eighth partial name
\* and came back as the third's full name.
C16_Witness ==
    /\ vpc = "corrected"
    /\ field_name = variations[8][1] \o << "_" >> \o variations[3][1]
    /\ field_name \notin RegistryColumns
    /\ Contains(Lower(field_name), variations[3][1])
    /\ Contains(Lower(field_name), variations[8][1])
    /\ corrected = variations[3][2]
    /\ corrected # variations[8][2]

\* C19: what comes of a model output is what validation makes of the JSON object
\* written from its first "{" to its last "}", whatever is before and after;
\* nothing comes of it when it has no "{", no "}", its last "}" before its first
\* "{", or when that stretch is not valid JSON.
C19_FirstToLastBrace ==
    vpc = "generated" =>
        IF \/ Positions(response_content, "{") = {}
           \/ Positions(response_content, "}") = {}
        THEN generated = None
        ELSE IF Last(Positions(response_content, "}"))
                    < First(Positions(response_content, "{"))
        THEN generated = None
        ELSE IF json_loads(SubSeq(response_content,
                                  First(Positions(response_content, "{")),
                                  Last(Positions(response_content, "}")))) = Exception
        THEN generated = None
        ELSE generated =
                 NoneIfException(validate_and_correct_columns(
                     json_loads(SubSeq(response_content,
                                       First(Positions(response_content, "{")),
                                       Last(Positions(response_content, "}"))))))

\* C19 witness: an object with prose before and after it gave a rule.
C19_Witness ==
    /\ vpc = "generated"
    /\ response_content = << " prose ", "{", "fixable", "}", " prose " >>
    /\ generated = validate_and_correct_columns(JsonObjects.fixable)
    /\ generated # None

\* C21: whenever a rule is confirmed, awaited to be confirmed or awaited to be
\* modified, currentRule holds a rule: it is neither None nor the empty object.
C21_RuleWhenFlagged ==
    (confirmed \/ awaiting_confirmation \/ awaiting_modification) =>
        /\ current_rule # None
        /\ current_rule # EmptyDict

\* C21 witness: a modification failed, and the rule to be modified is still
\* there.
C21_Witness ==
    /\ awaiting_modification
    /\ run.branch = "modification"
    /\ run.new_rule = None
    /\ messages[Len(messages)] = FailureMessage
    /\ current_rule # None

\* C22: at most one of awaiting-confirmation, awaiting-modification and
\* confirmed is true.
C22_AtMostOneFlag ==
    /\ ~(awaiting_confirmation /\ awaiting_modification)
    /\ ~(awaiting_confirmation /\ confirmed)
    /\ ~(awaiting_modification /\ confirmed)

\* C22 witness: a rule was confirmed, the next message began a new conversation
\* and its rule awaits confirmation, confirmed being false again.
C22_Witness ==
    /\ run.branch = "new"
    /\ InHistory(FinalRuleMessage)
    /\ awaiting_confirmation
    /\ ~confirmed
    /\ ~awaiting_modification

\* C23: cleaning a cleaned text gives the same text.
C23_CleanIdempotent == vpc = "recleaned" => recleaned = cleaned

====
